---- MODULE Spec2Model ----
(***************************************************************************)
(* A model of back/gcp.py: the GCP session (message normalization, the     *)
(* history list, the two streaming generators generate_stream and          *)
(* send_stream) and the GCPLive session (connect / close / send).          *)
(*                                                                         *)
(* A streaming call is an async generator.  It runs without interruption   *)
(* from one suspension point to the next, so each action below is the      *)
(* code between two suspension points: the await of                        *)
(* generate_content_stream, the await of the next chunk of the stream, and *)
(* the yield that hands a chunk to the caller.                             *)
(*                                                                         *)
(* Taken as given: the log_decor decorator (utils.decor) passes calls      *)
(* through unchanged, types.Content accepts the values it is built from,   *)
(* the Part constructors the data parts call (Part.from_text, from_bytes,  *)
(* from_uri) return the part they are named for, and closing a live        *)
(* transport does not raise.                                               *)
(***************************************************************************)
EXTENDS Integers, Sequences, FiniteSets, TLC

\* ---------------------------------------------------------------- bounds
MaxCalls == 2
MaxChunks == 2
MaxTransports == 2
MaxWire == 2
MaxEvents == 3
MaxItems == 3
MaxText == 6
MaxViewOps == 1

CallIds == 1..MaxCalls

\* The text of the k-th chunk the transport delivers to call c.  The code
\* never reads a chunk, so chunks are told apart by where they come from.
ChunkText(c, k) == ToString(<<c, k>>)

VARIABLES
    hasHistory,   \* FALSE: GCP was constructed without history (self.history is None)
    history,      \* self.history, the transcript
    response,     \* self.response, the accumulator of send_stream
    calls,        \* one record per streaming call (generator object)
    session,      \* GCPLive.session: 0 is None, otherwise the transport it holds
    transports,   \* every transport client.aio.live.connect could hand out
    wire,         \* what was sent over the live transports, in order
    lastOp,       \* the last GCPLive method that returned or raised
    liveErr,      \* the exception the last GCPLive method raised, or "none"
    opFrom,       \* self.session when the last GCPLive method was entered
    opAttempts,   \* calls of client.aio.live.connect made by the last method
    opSends,      \* remote sends attempted by the last method
    opArg,        \* the turns and turn_complete the last method was called with
    scope,        \* "in" while the body of  async with GCPLive(...)  runs
    recv,         \* the generator of the current GCPLive.receive() call
    delivered,    \* per transport, how many server events it has handed over
    normIn,       \* the argument of a direct _validate_message call
    normOut,      \* what that call returned or raised
    valText,      \* the text handed to the structured-output validator
    valOut,       \* the record or the failure the validator answered with
    streamDoc,    \* the whole text the remote side streams back
    streamPos,    \* how much of it the transport has delivered in chunks
    viewOps       \* mutations the caller made on the list get_history() returned

gcpVars == <<hasHistory, history, response, calls>>
liveVars == <<session, transports, wire, lastOp, liveErr,
             opFrom, opAttempts, opSends, opArg, scope, recv, delivered>>
normVars == <<normIn, normOut>>
auxVars == <<valText, valOut, streamDoc, streamPos, viewOps>>
vars == <<hasHistory, history, response, calls, session, transports, wire,
          lastOp, liveErr, opFrom, opAttempts, opSends, opArg,
          scope, recv, delivered, normIn, normOut,
          valText, valOut, streamDoc, streamPos, viewOps>>

\* ------------------------------------------------------- message values
\* A types.Content or a bare Part; a bare Part carries no role.
Content(role, parts) == [type |-> "Content", role |-> role, parts |-> parts]
BarePart(part) == [type |-> "Part", role |-> "none", parts |-> <<part>>]
TextPart(text) == [tag |-> "Text", val |-> text]
BlobPart(blob, mime) == [tag |-> "Blob", val |-> blob, mime |-> mime]

\* Caller inputs.  kind is the runtime type _validate_message dispatches on;
\* role is read for a dict; items (kinds of the elements) is read for a list.
Input(kind, role, items) == [kind |-> kind, role |-> role, items |-> items]
StrInput == Input("str", "none", <<>>)
DictUserInput == Input("dict", "user", <<>>)
DictModelInput == Input("dict", "model", <<>>)
PartInput == Input("part", "none", <<>>)
ListInput == Input("list", "none", <<"str", "part">>)
OtherInput == Input("other", "none", <<>>)

\* What the callers of send_stream and of generate_stream pass.
SendInputs == {StrInput, DictModelInput, PartInput, OtherInput}
GenerateInputs == {StrInput, ListInput, OtherInput}

\* The part one list element contributes (gcp.py 149-155); an element that
\* matches no branch contributes nothing.
ItemParts(item) ==
    CASE item = "str" -> <<TextPart("s")>>
      [] item = "dict" -> <<TextPart("d")>>
      [] item = "part" -> <<TextPart("p")>>
      [] item = "blob" -> <<BlobPart("b", "image/png")>>
      [] OTHER -> <<>>

\* Mutant: the parts are collected in reverse.
RECURSIVE ListParts_Reverse(_)
ListParts_Reverse(items) ==
    IF items = <<>> THEN <<>>
    ELSE ListParts_Reverse(Tail(items)) \o ItemParts(Head(items))

RECURSIVE ListParts(_)
ListParts(items) ==
    IF items = <<>> THEN <<>>
    ELSE ItemParts(Head(items)) \o ListParts(Tail(items))

\* _validate_message raises ValueError exactly when no branch matches.
Supported(m) == m.kind \in {"str", "dict", "part", "list"}

ValidateMessage(m) ==
    CASE m.kind = "str" -> Content("user", <<TextPart("q")>>)
      [] m.kind = "dict" -> Content(m.role, <<TextPart("d")>>)
      [] m.kind = "part" -> BarePart(TextPart("p"))
      [] m.kind = "list" -> Content("user", ListParts(m.items))

\* ---- _validate_message called on its own
\* The runtime types of list elements, and the arguments built from them.
ItemKinds == {"str", "dict", "part", "blob", "other"}
SupportedItems == {"str", "dict", "part", "blob"}
ItemLists == UNION {[1..n -> ItemKinds] : n \in 0..MaxItems}
NormInputs ==
    {StrInput, DictUserInput, DictModelInput, PartInput, OtherInput}
    \cup {Input("list", "none", items) : items \in ItemLists}

NoResult == [status |-> "none", msg |-> BarePart(TextPart("")), named |-> "none"]

\* gcp.py 139-157: the value returned, or the ValueError raised, which
\* names type(message).
ValidateResult(m) ==
    IF Supported(m)
    THEN [status |-> "returned", msg |-> ValidateMessage(m), named |-> "none"]
    ELSE [NoResult EXCEPT !.status = "raised", !.named = m.kind]

\* Mutant: the normalized message is appended to the history.
HistoryOnValidate_Append(h, msg) == Append(h, msg)

\* gcp.py 139-157: _validate_message reads its argument only; self.history
\* is not touched.
HistoryOnValidate(h, msg) == h

\* gcp.py 139-157: one direct call of _validate_message.
Normalize(m) ==
    /\ normIn' = m
    /\ normOut' = ValidateResult(m)
    /\ history' = HistoryOnValidate(history, normOut'.msg)
    /\ UNCHANGED <<hasHistory, response, calls, liveVars, auxVars>>

\* The histories a GCP session is constructed with (gcp.py 115, 124).
SuppliedHistories ==
    {<<>>, <<Content("user", <<TextPart("h")>>), Content("model", <<TextPart("a")>>)>>}

\* ---- the structured-output validator (spec.md 4.4)
\* gcp.py has no validator: test_gcp.py and reviewer.py call
\* GCP.clean_response, which is not part of the sources.  It is modelled
\* from section 4.4 of the specification.
\* A text is a sequence of characters.  A data document is written
\*   { key value key value ... }
\* with the keys m (message) and s (status), the string value t and the
\* number value 9.
DocChars == {"{", "}", "m", "s", "t", "9"}
Keys == {"m", "s"}
Values == {"t", "9"}
Texts == UNION {[1..n -> DocChars] : n \in 0..MaxText}

\* The contract of test_gcp.py 12-15: message and status, both strings.
RequiredFields == {"m", "s"}
FieldType(k) == "string"
TypeOf(v) == IF v = "t" THEN "string" ELSE "number"

NoRecord == [k \in RequiredFields |-> "absent"]
NoVerdict == [status |-> "none", fields |-> {}, record |-> NoRecord]

\* Reads key/value pairs from position i on; a later pair overrides an
\* earlier one with the same key.  The document ends at its closing brace.
RECURSIVE ParseEntries(_, _, _)
ParseEntries(text, i, acc) ==
    IF i > Len(text) THEN [ok |-> FALSE, doc |-> acc]
    ELSE IF text[i] = "}" THEN [ok |-> i = Len(text), doc |-> acc]
    ELSE IF text[i] \in Keys /\ i < Len(text) /\ text[i + 1] \in Values
    THEN ParseEntries(text, i + 2, [acc EXCEPT ![text[i]] = text[i + 1]])
    ELSE [ok |-> FALSE, doc |-> acc]

ParseDoc(text) ==
    IF Len(text) >= 1 /\ text[1] = "{"
    THEN ParseEntries(text, 2, [k \in Keys |-> "absent"])
    ELSE [ok |-> FALSE, doc |-> [k \in Keys |-> "absent"]]

\* Mutant: a field of the wrong type is let through.
Defects_MissingOnly(doc) == {k \in RequiredFields : doc[k] = "absent"}

\* The required fields that are missing or hold a value of another type.
Defects(doc) ==
    {k \in RequiredFields : doc[k] = "absent" \/ TypeOf(doc[k]) # FieldType(k)}

\* Mutant: a text that does not parse is reported as a schema failure.
OnMalformed_AsSchema(text) ==
    [NoVerdict EXCEPT !.status = "SchemaValidationError", !.fields = RequiredFields]

OnMalformed(text) == [NoVerdict EXCEPT !.status = "MalformedPayloadError"]

\* validate(text, contract)
Validate(text) ==
    LET p == ParseDoc(text) IN
    IF ~p.ok THEN OnMalformed(text)
    ELSE IF Defects(p.doc) # {}
    THEN [NoVerdict EXCEPT !.status = "SchemaValidationError", !.fields = Defects(p.doc)]
    ELSE [NoVerdict EXCEPT !.status = "record",
                           !.record = [k \in RequiredFields |-> p.doc[k]]]

\* One call of the validator on the text it was handed.
ValidateCall ==
    /\ valOut.status = "none"
    /\ valOut' = Validate(valText)
    /\ UNCHANGED <<gcpVars, liveVars, normVars, valText, streamDoc, streamPos, viewOps>>

\* ------------------------------------------------------ streaming calls
\* pc of a call:
\*   "idle"      the generator has not been started
\*   "opening"   suspended in  await ...generate_content_stream(...)
\*   "open"      suspended waiting for the next chunk, or at the yield
\*   "done"      the generator returned (StopAsyncIteration)
\*   "rejected"  _validate_message raised ValueError
\*   "crashed"   self.history.append raised (history is None)
\*   "failed"    the transport raised while opening or reading the stream
\*   "cancelled" the caller closed or cancelled the suspended generator
IdleCall ==
    [mode |-> "none", pc |-> "idle", input |-> OtherInput, pre |-> <<>>,
     sent |-> <<>>, received |-> <<>>, yielded |-> <<>>,
     opens |-> 0, final |-> <<>>, at |-> 0, rank |-> 0]
\* opens: how often the call called generate_content_stream; final: the
\* model message the call appended; at: where in the history it put it;
\* rank: the call was the rank-th chat-mode call to complete.

InFlight(c) == calls[c].pc \in {"opening", "open"}
NoneInFlight == \A d \in CallIds : ~InFlight(d)
\* Calls are started in the order of their ids.
NextToStart(c) == /\ calls[c].pc = "idle"
                  /\ \A d \in CallIds : d < c => calls[d].pc # "idle"

\* Mutant: the accumulator of the call before is kept.
ResponseAtStart_Keep(resp) == resp

\* gcp.py 186: send_stream begins with self.response = [].
ResponseAtStart(resp) == <<>>

\* Mutant: a stream that failed is opened once more.
OpensOnError_Retry(n) == n + 1

\* gcp.py 190-199: no loop and no handler surrounds the call of
\* generate_content_stream or the iteration; a failure leaves the generator.
OpensOnError(n) == n

\* Mutant: the call is issued before the message is appended.
SendStreamContext_BeforeAppend(h, msg) == h

\* gcp.py 189-192: the message is appended, then the call is issued with
\* contents=self.history, the list that now ends with that message.
SendStreamContext(h, msg) == Append(h, msg)

\* Mutant: the accumulator keeps the newest chunk only.
ProcessResponse_KeepLast(resp, chunk) == <<chunk>>

\* Mutant: the newest chunk is put in front of the accumulator.
ProcessResponse_Prepend(resp, chunk) == <<chunk>> \o resp

\* gcp.py 207-208
ProcessResponse(resp, chunk) == Append(resp, chunk)

\* Mutant: the newest chunk is handed on ahead of the earlier ones.
Deliver_Reorder(out, chunk) == <<chunk>> \o out

\* gcp.py 197 and 180: yield response
Deliver(out, chunk) == Append(out, chunk)

\* The parts of the model message built from self.response (gcp.py 204).
ResponseParts(resp) == [i \in 1..Len(resp) |-> TextPart(resp[i])]

\* Mutant: the model message is put at the front of the history.
UpdateHistory_AtFront(h, resp) == <<Content("model", ResponseParts(resp))>> \o h

\* Mutant: the response is appended with the role of the caller.
UpdateHistory_AsUser(h, resp) == Append(h, Content("user", ResponseParts(resp)))

\* Mutant: an empty response is not appended.
UpdateHistory_SkipEmpty(h, resp) ==
    IF resp = <<>> THEN h ELSE Append(h, Content("model", ResponseParts(resp)))

\* gcp.py 203-204
UpdateHistory(h, resp) == Append(h, Content("model", ResponseParts(resp)))

\* Mutant: the user message of a failed call is taken back.
HistoryOnError_Rollback(h, resp) == SubSeq(h, 1, Len(h) - 1)

\* Mutant: the loop is wrapped in try/finally and finalizes on an error.
HistoryOnError_Finalize(h, resp) == Append(h, Content("model", ResponseParts(resp)))

\* gcp.py 195-199: an exception raised by the stream leaves the generator
\* at once; no handler and no finally block runs _update_history.
HistoryOnError(h, resp) == h

\* Mutant: the loop is wrapped in try/finally and finalizes on cancellation.
HistoryOnCancel_Finalize(h, resp) == Append(h, Content("model", ResponseParts(resp)))

\* gcp.py 195-199: closing or cancelling the generator raises GeneratorExit
\* or CancelledError at the suspension point; nothing after it runs.
HistoryOnCancel(h, resp) == h

\* Mutant: the raw message is appended before it is validated.
HistoryOnReject_AppendRaw(h, m) == Append(h, Content("user", <<TextPart("raw")>>))

\* gcp.py 188-189: _validate_message raises before self.history.append is
\* reached.
HistoryOnReject(h, m) == h

\* Mutant: generate_stream appends what it sends to self.history.
HistoryOnGenerate_Append(h, contents) == h \o contents

\* gcp.py 170-178: generate_stream never touches self.history.
HistoryOnGenerate(h, contents) == h

\* An element of the list given to generate_stream, as a message.
ItemInput(kind) == Input(kind, "user", <<>>)

\* Mutant: a list is merged into one message, as send_stream does.
GenerateContents_Merged(m) == <<ValidateMessage(m)>>

\* gcp.py 170-173: one _validate_message per element of the list.
GenerateContents(m) ==
    IF m.kind = "list"
    THEN [i \in 1..Len(m.items) |-> ValidateMessage(ItemInput(m.items[i]))]
    ELSE <<ValidateMessage(m)>>

\* gcp.py 173: the call is left when _validate_message rejects an element.
GenerateSupported(m) ==
    IF m.kind = "list"
    THEN \A i \in 1..Len(m.items) : Supported(ItemInput(m.items[i]))
    ELSE Supported(m)

\* gcp.py 183-194: send_stream up to its first suspension point.
SendStreamStart(c, m) ==
    /\ NextToStart(c)
    /\ response' = ResponseAtStart(response)
    /\ IF ~Supported(m)
       THEN /\ calls' = [calls EXCEPT ![c] = [IdleCall EXCEPT
                   !.mode = "chat", !.pc = "rejected", !.input = m, !.pre = history]]
            /\ history' = HistoryOnReject(history, m)
       ELSE IF ~hasHistory
       THEN /\ calls' = [calls EXCEPT ![c] = [IdleCall EXCEPT
                   !.mode = "chat", !.pc = "crashed", !.input = m, !.pre = history]]
            /\ UNCHANGED history
       ELSE /\ history' = Append(history, ValidateMessage(m))
            /\ calls' = [calls EXCEPT ![c] = [IdleCall EXCEPT
                   !.mode = "chat", !.pc = "opening", !.input = m, !.pre = history,
                   !.sent = SendStreamContext(history, ValidateMessage(m)),
                   !.opens = 1]]
    /\ UNCHANGED <<hasHistory, liveVars, normVars, auxVars>>

\* gcp.py 159-178: generate_stream up to its first suspension point.
GenerateStreamStart(c, m) ==
    /\ NextToStart(c)
    /\ IF ~GenerateSupported(m)
       THEN /\ calls' = [calls EXCEPT ![c] = [IdleCall EXCEPT
                   !.mode = "stateless", !.pc = "rejected", !.input = m, !.pre = history]]
            /\ UNCHANGED history
       ELSE /\ calls' = [calls EXCEPT ![c] = [IdleCall EXCEPT
                   !.mode = "stateless", !.pc = "opening", !.input = m, !.pre = history,
                   !.sent = GenerateContents(m), !.opens = 1]]
            /\ history' = HistoryOnGenerate(history, GenerateContents(m))
    /\ UNCHANGED <<hasHistory, response, liveVars, normVars, auxVars>>

\* The await of generate_content_stream returns the stream (174, 190).
OpenOk(c) ==
    /\ calls[c].pc = "opening"
    /\ calls' = [calls EXCEPT ![c].pc = "open"]
    /\ UNCHANGED <<hasHistory, history, response, liveVars, normVars, auxVars>>

\* gcp.py 195-197: one iteration of the loop of send_stream.
SendStreamChunk(c) ==
    /\ calls[c].mode = "chat" /\ calls[c].pc = "open"
    /\ Len(calls[c].received) < MaxChunks
    /\ LET x == ChunkText(c, Len(calls[c].received) + 1) IN
         /\ response' = ProcessResponse(response, x)
         /\ calls' = [calls EXCEPT ![c].received = Append(@, x),
                                   ![c].yielded = Deliver(@, x)]
    /\ UNCHANGED <<hasHistory, history, liveVars, normVars, auxVars>>

\* gcp.py 179-180: one iteration of the loop of generate_stream.
GenerateStreamChunk(c) ==
    /\ calls[c].mode = "stateless" /\ calls[c].pc = "open"
    /\ Len(calls[c].received) < MaxChunks
    /\ LET x == ChunkText(c, Len(calls[c].received) + 1) IN
         calls' = [calls EXCEPT ![c].received = Append(@, x),
                                ![c].yielded = Deliver(@, x)]
    /\ UNCHANGED <<hasHistory, history, response, liveVars, normVars, auxVars>>

\* gcp.py 195-199: the stream is exhausted; send_stream finalizes.
SendStreamEnd(c) ==
    /\ calls[c].mode = "chat" /\ calls[c].pc = "open"
    /\ history' = UpdateHistory(history, response)
    /\ calls' = [calls EXCEPT
                  ![c].pc = "done",
                  ![c].final = <<Content("model", ResponseParts(response))>>,
                  ![c].at = Len(history) + 1,
                  ![c].rank = 1 + Cardinality({d \in CallIds :
                                  calls[d].mode = "chat" /\ calls[d].pc = "done"})]
    /\ UNCHANGED <<hasHistory, response, liveVars, normVars, auxVars>>

\* gcp.py 179-180: the stream is exhausted; generate_stream returns.
GenerateStreamEnd(c) ==
    /\ calls[c].mode = "stateless" /\ calls[c].pc = "open"
    /\ calls' = [calls EXCEPT ![c].pc = "done"]
    /\ UNCHANGED <<hasHistory, history, response, liveVars, normVars, auxVars>>

\* The transport raises while the call is opening or reading the stream.
StreamError(c) ==
    /\ InFlight(c)
    /\ history' = IF calls[c].mode = "chat"
                  THEN HistoryOnError(history, response) ELSE history
    /\ calls' = [calls EXCEPT ![c].pc = "failed", ![c].opens = OpensOnError(@)]
    /\ UNCHANGED <<hasHistory, response, liveVars, normVars, auxVars>>

\* The caller stops iterating: aclose() or task cancellation.
Cancel(c) ==
    /\ InFlight(c)
    /\ history' = IF calls[c].mode = "chat"
                  THEN HistoryOnCancel(history, response) ELSE history
    /\ calls' = [calls EXCEPT ![c].pc = "cancelled"]
    /\ UNCHANGED <<hasHistory, response, liveVars, normVars, auxVars>>

\* ------------------------------------------------------- live session
TransportIds == 1..MaxTransports
NoTransport == [state |-> "absent", releases |-> 0]
Established == {t \in TransportIds : transports[t].state # "absent"}

\* Mutant: connect() establishes a transport whether or not one is held.
NeedsConnect_Always(s) == TRUE

\* gcp.py 450: connect() does nothing when a session is held.
NeedsConnect(s) == s = 0

\* gcp.py 459: close() acts only when a session is held.
HoldsSession(s) == s # 0

\* gcp.py 460: await self.session.close() releases the held transport.
Release(tr, s) ==
    [tr EXCEPT ![s] = [state |-> "closed", releases |-> @.releases + 1]]

\* Mutant: close() forgets to clear self.session.
SessionAfterClose_Keep(s) == s

\* gcp.py 461
SessionAfterClose(s) == 0

\* gcp.py 457-461: the session and the transports after one close().
CloseEffect(s, tr) ==
    IF HoldsSession(s)
    THEN [session |-> SessionAfterClose(s), transports |-> Release(tr, s)]
    ELSE [session |-> s, transports |-> tr]

RecordOp(op, err) ==
    /\ lastOp' = op
    /\ liveErr' = err

\* What the last method found and did: the session it was entered with, its
\* calls of client.aio.live.connect and its remote sends.
\* A method called without turns: turns is None, turn_complete its default.
NoArg == [turns |-> [kind |-> "none", items |-> <<>>], complete |-> TRUE]

RecordDid(attempts, sends) ==
    /\ opFrom' = session
    /\ opAttempts' = attempts
    /\ opSends' = sends

\* The next transport client.aio.live.connect hands out.
NewTransport(t) ==
    /\ transports[t].state = "absent"
    /\ \A u \in TransportIds : u < t => transports[u].state # "absent"

\* Mutant: a failed connect is tried once more.
ConnectAttempts_Retry(s) == IF NeedsConnect(s) THEN 2 ELSE 0

\* gcp.py 450-454: connect() calls client.aio.live.connect once, and only
\* when no session is held; no loop and no handler surrounds the call.
ConnectAttempts(s) == IF NeedsConnect(s) THEN 1 ELSE 0

\* gcp.py 448-455 as used by every method: t is the session held afterwards
\* when the connect, if one is needed, succeeds.
Connected(t) == IF NeedsConnect(session) THEN NewTransport(t) ELSE t = session
TransportsConnected(t) ==
    IF NeedsConnect(session)
    THEN [transports EXCEPT ![t].state = "open"] ELSE transports

\* gcp.py 448-455, the transport is established.
ConnectOk ==
    /\ \E t \in TransportIds :
          /\ Connected(t)
          /\ transports' = TransportsConnected(t)
          /\ session' = t
    /\ RecordOp("connect", "none")
    /\ RecordDid(ConnectAttempts(session), 0)
    /\ opArg' = NoArg
    /\ UNCHANGED <<wire, scope, recv, delivered, gcpVars, normVars, auxVars>>

\* gcp.py 448-455, client.aio.live.connect raises: self.session is not
\* assigned and the exception leaves connect().
ConnectFail ==
    /\ NeedsConnect(session)
    /\ RecordOp("connect", "TransportError")
    /\ RecordDid(ConnectAttempts(session), 0)
    /\ opArg' = NoArg
    /\ UNCHANGED <<session, transports, wire, scope, recv,
                   delivered, gcpVars, normVars, auxVars>>

\* gcp.py 457-461
Close ==
    /\ session' = CloseEffect(session, transports).session
    /\ transports' = CloseEffect(session, transports).transports
    /\ RecordOp("close", "none")
    /\ RecordDid(0, 0)
    /\ opArg' = NoArg
    /\ UNCHANGED <<wire, scope, recv, delivered, gcpVars, normVars, auxVars>>

\* One message on the wire of transport t.
WireEntry(t, what, turns, complete) ==
    [on |-> t, what |-> what, turns |-> turns, complete |-> complete]

\* gcp.py 498-525 (op "send_stream") and 527-539 (op "send_tool_response"):
\* connect if no session is held, then one send on the session.
SendPlain(op) ==
    /\ Len(wire) < MaxWire
    /\ \E t \in TransportIds :
          /\ Connected(t)
          /\ transports' = TransportsConnected(t)
          /\ session' = t
          /\ wire' = Append(wire, WireEntry(t, op, <<>>, TRUE))
    /\ RecordOp(op, "none")
    /\ RecordDid(ConnectAttempts(session), 1)
    /\ opArg' = NoArg
    /\ UNCHANGED <<scope, recv, delivered, gcpVars, normVars, auxVars>>

\* gcp.py 527-539
SendToolResponse == SendPlain("send_tool_response")

\* gcp.py 498-525: GCPLive.send_stream, the realtime input.
SendRealtime == SendPlain("send_stream")

\* ---- send_client_content
\* turns is None, one value, or a list; items are the runtime types.
Turns(kind, items) == [kind |-> kind, items |-> items]
NoTurns == Turns("none", <<>>)
TurnInputs ==
    {NoTurns, Turns("single", <<"content">>), Turns("list", <<"str", "content">>),
     Turns("list", <<"str", "other">>)}

\* gcp.py 463-474
ContentSupported(k) == k \in {"content", "dict", "str", "part"}
ValidateContent(k) ==
    CASE k = "content" -> Content("user", <<TextPart("c")>>)
      [] k = "dict" -> Content("user", <<TextPart("d")>>)
      [] k = "str" -> Content("user", <<TextPart("q")>>)
      [] k = "part" -> BarePart(TextPart("p"))

\* gcp.py 495
TurnsSupported(turns) ==
    \A i \in 1..Len(turns.items) : ContentSupported(turns.items[i])
ValidatedTurns(turns) ==
    [i \in 1..Len(turns.items) |-> ValidateContent(turns.items[i])]

\* Mutant: the failure of the implicit connect is swallowed and the turns
\* are sent all the same.
WireOnConnectFail_Send(w, entry) == Append(w, entry)

\* gcp.py 488-489: the exception of the implicit connect() leaves
\* send_client_content before line 496.
WireOnConnectFail(w, entry) == w

\* Mutant: turns sent with turn_complete=False are held back.
TurnsOnWire_HoldPartial(w, entry) == IF entry.complete THEN Append(w, entry) ELSE w

\* gcp.py 496: every call with turns makes its own session send, with the
\* turn_complete it was given.
TurnsOnWire(w, entry) == Append(w, entry)

\* The turns in front of the first one _validate_content rejects.
RECURSIVE SupportedPrefix(_)
SupportedPrefix(items) ==
    IF items = <<>> \/ ~ContentSupported(Head(items)) THEN <<>>
    ELSE <<ValidateContent(Head(items))>> \o SupportedPrefix(Tail(items))

\* Mutant: the turns validated so far are sent before the failure is raised.
WireOnUnsupported_SendValid(w, entry) == Append(w, entry)

\* gcp.py 495-496: the list comprehension validates every turn before the
\* one send; a ValueError from it leaves the method before line 496.
WireOnUnsupported(w, entry) == w

\* gcp.py 476-496: the connect, if one is needed, succeeds.
SendClientContent(turns, complete) ==
    /\ Len(wire) < MaxWire
    /\ opArg' = [turns |-> turns, complete |-> complete]
    /\ \E t \in TransportIds :
          /\ Connected(t)
          /\ transports' = TransportsConnected(t)
          /\ session' = t
          /\ IF turns.kind = "none"
             THEN /\ UNCHANGED wire
                  /\ RecordOp("send_client_content", "none")
                  /\ RecordDid(ConnectAttempts(session), 0)
             ELSE IF ~TurnsSupported(turns)
             THEN /\ wire' = WireOnUnsupported(wire, WireEntry(t, "send_client_content",
                                                   SupportedPrefix(turns.items), complete))
                  /\ RecordOp("send_client_content", "ValueError")
                  /\ RecordDid(ConnectAttempts(session), 0)
             ELSE /\ wire' = TurnsOnWire(wire, WireEntry(t, "send_client_content",
                                                     ValidatedTurns(turns), complete))
                  /\ RecordOp("send_client_content", "none")
                  /\ RecordDid(ConnectAttempts(session), 1)
    /\ UNCHANGED <<scope, recv, delivered, gcpVars, normVars, auxVars>>

\* gcp.py 488-489, 514-515, 536-537: the implicit connect() of a send
\* method raises; the method is left before it sends.
SendConnectFail(op, turns, complete) ==
    /\ NeedsConnect(session)
    /\ op = "send_client_content" \/ (turns = NoTurns /\ complete)
    /\ wire' = WireOnConnectFail(wire, WireEntry(session, op,
                   IF TurnsSupported(turns) THEN ValidatedTurns(turns) ELSE <<>>,
                   complete))
    /\ RecordOp(op, "TransportError")
    /\ RecordDid(ConnectAttempts(session), 0)
    /\ opArg' = [turns |-> turns, complete |-> complete]
    /\ UNCHANGED <<session, transports, scope, recv, delivered,
                   gcpVars, normVars, auxVars>>

\* gcp.py 496, 517, 539: the send itself raises on a held session.
SendFail(op) ==
    /\ ~NeedsConnect(session)
    /\ RecordOp(op, "TransportError")
    /\ RecordDid(0, 1)
    /\ \E turns \in TurnInputs, complete \in BOOLEAN :
          /\ IF op = "send_client_content"
             THEN turns.kind # "none" /\ TurnsSupported(turns)
             ELSE turns = NoTurns /\ complete
          /\ opArg' = [turns |-> turns, complete |-> complete]
    /\ UNCHANGED <<session, transports, wire, scope, recv,
                   delivered, gcpVars, normVars, auxVars>>

SendOps == {"send_client_content", "send_stream", "send_tool_response"}

\* ---- async with GCPLive(...) as live:
ExitKinds == {"return", "error", "cancel"}

ExitOp(kind) ==
    CASE kind = "return" -> "aexit_return"
      [] kind = "error" -> "aexit_error"
      [] kind = "cancel" -> "aexit_cancel"

\* Mutant: __aexit__ closes only when the body returned normally.
ExitCloses_OnReturnOnly(kind) == kind = "return"

\* gcp.py 444-446: __aexit__ calls close() whatever exc_type is.
ExitCloses(kind) == TRUE

\* gcp.py 439-442: __aenter__, the connect succeeds or a session is held.
AEnterOk ==
    /\ scope = "out"
    /\ \E t \in TransportIds :
          /\ Connected(t)
          /\ transports' = TransportsConnected(t)
          /\ session' = t
    /\ scope' = "in"
    /\ RecordOp("aenter", "none")
    /\ RecordDid(ConnectAttempts(session), 0)
    /\ opArg' = NoArg
    /\ UNCHANGED <<wire, recv, delivered, gcpVars, normVars, auxVars>>

\* gcp.py 439-442: the connect of __aenter__ raises; the body never runs
\* and __aexit__ is not called.
AEnterFail ==
    /\ scope = "out"
    /\ NeedsConnect(session)
    /\ RecordOp("aenter", "TransportError")
    /\ RecordDid(ConnectAttempts(session), 0)
    /\ opArg' = NoArg
    /\ UNCHANGED <<session, transports, wire, scope, recv,
                   delivered, gcpVars, normVars, auxVars>>

\* gcp.py 444-446: the body is left by a return, an exception or a
\* cancellation, and __aexit__ runs.
AExit(kind) ==
    /\ scope = "in"
    /\ scope' = "out"
    /\ IF ExitCloses(kind)
       THEN /\ session' = CloseEffect(session, transports).session
            /\ transports' = CloseEffect(session, transports).transports
               ELSE UNCHANGED <<session, transports>>
    /\ RecordOp(ExitOp(kind), "none")
    /\ RecordDid(0, 0)
    /\ opArg' = NoArg
    /\ UNCHANGED <<wire, recv, delivered, gcpVars, normVars, auxVars>>

\* ---- receive
\* The k-th server event of transport t.
ServerEvent(t, k) == <<t, k>>

IdleRecv == [pc |-> "idle", on |-> 0, start |-> 0, out |-> <<>>]
RecvRunning == recv.pc = "open"

\* Mutant: a message is handed to the consumer twice.
ReceiveYield_Twice(out, msg) == out \o <<msg, msg>>

\* gcp.py 550-551: each message of session.receive() is yielded as it is.
ReceiveYield(out, msg) == Append(out, msg)

\* gcp.py 541-550: a receive() call is started; it connects if no session is
\* held and opens session.receive() on the session it holds.
ReceiveStart ==
    /\ ~RecvRunning
    /\ \E t \in TransportIds :
          /\ Connected(t)
          /\ transports' = TransportsConnected(t)
          /\ session' = t
          /\ recv' = [pc |-> "open", on |-> t, start |-> delivered[t], out |-> <<>>]
    /\ RecordOp("receive", "none")
    /\ RecordDid(ConnectAttempts(session), 0)
    /\ opArg' = NoArg
    /\ UNCHANGED <<wire, scope, delivered, gcpVars, normVars, auxVars>>

\* gcp.py 548-549: the implicit connect of receive() raises.
ReceiveStartFail ==
    /\ ~RecvRunning
    /\ NeedsConnect(session)
    /\ recv' = [IdleRecv EXCEPT !.pc = "failed"]
    /\ RecordOp("receive", "TransportError")
    /\ RecordDid(ConnectAttempts(session), 0)
    /\ opArg' = NoArg
    /\ UNCHANGED <<session, transports, wire, scope, delivered, gcpVars, normVars, auxVars>>

\* gcp.py 550-551: the consumer asks for the next message, the session
\* hands over its next server event and receive() yields it.
ReceiveEvent ==
    /\ RecvRunning
    /\ delivered[recv.on] < MaxEvents
    /\ delivered' = [delivered EXCEPT ![recv.on] = @ + 1]
    /\ recv' = [recv EXCEPT
                  !.out = ReceiveYield(@, ServerEvent(recv.on, delivered[recv.on] + 1))]
    /\ UNCHANGED <<session, transports, wire, lastOp, liveErr, opFrom,
                   opAttempts, opSends, opArg, scope, gcpVars, normVars, auxVars>>

\* gcp.py 550-551: the remote side ends the stream; the loop and with it
\* the generator finish.
ReceiveEnd ==
    /\ RecvRunning
    /\ recv' = [recv EXCEPT !.pc = "ended"]
    /\ UNCHANGED <<session, transports, wire, lastOp, liveErr, opFrom,
                   opAttempts, opSends, opArg, scope, delivered, gcpVars, normVars, auxVars>>

\* gcp.py 550: session.receive() raises; the exception leaves receive().
ReceiveError ==
    /\ RecvRunning
    /\ recv' = [recv EXCEPT !.pc = "failed"]
    /\ liveErr' = "TransportError"
    /\ UNCHANGED <<session, transports, wire, lastOp, opFrom,
                   opAttempts, opSends, opArg, scope, delivered, gcpVars, normVars, auxVars>>

\* ---- the list get_history() returns
\* gcp.py 216-218: get_history returns self.history, the list itself, so
\* the list the caller changed is the list the session holds.
HistoryAfterViewChange(h, changed) == changed

CallerMessage == Content("user", <<TextPart("x")>>)

\* The caller appends to the returned list.
ViewAppend ==
    /\ hasHistory
    /\ viewOps < MaxViewOps
    /\ history' = HistoryAfterViewChange(history, Append(history, CallerMessage))
    /\ viewOps' = viewOps + 1
    /\ UNCHANGED <<hasHistory, response, calls, liveVars, normVars,
                   valText, valOut, streamDoc, streamPos>>

\* The caller deletes the last element of the returned list.
ViewDelete ==
    /\ hasHistory
    /\ viewOps < MaxViewOps
    /\ history # <<>>
    /\ history' = HistoryAfterViewChange(history, SubSeq(history, 1, Len(history) - 1))
    /\ viewOps' = viewOps + 1
    /\ UNCHANGED <<hasHistory, response, calls, liveVars, normVars,
                   valText, valOut, streamDoc, streamPos>>

\* The caller replaces the first element of the returned list.
ViewReplace ==
    /\ hasHistory
    /\ viewOps < MaxViewOps
    /\ history # <<>>
    /\ history' = HistoryAfterViewChange(history, [history EXCEPT ![1] = CallerMessage])
    /\ viewOps' = viewOps + 1
    /\ UNCHANGED <<hasHistory, response, calls, liveVars, normVars,
                   valText, valOut, streamDoc, streamPos>>

\* ---- a streamed reply handed to the validator
\* The replies of the scenarios of test_gcp.py 118-183: a complete record,
\* the same with the fields in the other order, a missing field, a value of
\* the wrong type, a missing closing brace, and an empty reply.
Replies ==
    {<<"{", "m", "t", "s", "t", "}">>, <<"{", "s", "t", "m", "t", "}">>,
     <<"{", "m", "t", "}">>, <<"{", "m", "9", "s", "t", "}">>,
     <<"{", "m", "t", "s", "t">>, <<>>}

\* The text of the accumulated chunks: their concatenation (spec.md 4.3).
RECURSIVE ResponseText(_)
ResponseText(resp) ==
    IF resp = <<>> THEN <<>> ELSE Head(resp) \o ResponseText(Tail(resp))

\* gcp.py 195-197, 207-208: the transport delivers the next n characters
\* of the reply as one chunk and the loop accumulates it.
AssembleChunk(n) ==
    /\ hasHistory
    /\ valOut.status = "none"
    /\ Len(response) < MaxChunks
    /\ streamPos + n <= Len(streamDoc)
    /\ response' = ProcessResponse(response, SubSeq(streamDoc, streamPos + 1, streamPos + n))
    /\ streamPos' = streamPos + n
    /\ UNCHANGED <<hasHistory, history, calls, liveVars, normVars,
                   valText, valOut, streamDoc, viewOps>>

\* gcp.py 198-199, 203-204: the stream is exhausted, the model message is
\* appended, and (spec.md 4.3) the accumulated text goes to the validator.
AssembleEnd ==
    /\ hasHistory
    /\ valOut.status = "none"
    /\ streamPos = Len(streamDoc)
    /\ history' = UpdateHistory(history, response)
    /\ valText' = ResponseText(response)
    /\ valOut' = Validate(valText')
    /\ UNCHANGED <<hasHistory, response, calls, liveVars, normVars,
                   streamDoc, streamPos, viewOps>>

\* ----------------------------------------------------- specifications
InitRest ==
    /\ hasHistory \in BOOLEAN
    /\ response = <<>>
    /\ calls = [c \in CallIds |-> IdleCall]
    /\ session = 0
    /\ transports = [t \in TransportIds |-> NoTransport]
    /\ wire = <<>>
    /\ lastOp = "none"
    /\ liveErr = "none"
    /\ opFrom = 0
    /\ opAttempts = 0
    /\ opSends = 0
    /\ opArg = NoArg
    /\ scope = "out"
    /\ recv = IdleRecv
    /\ delivered = [t \in TransportIds |-> 0]
    /\ normIn = OtherInput
    /\ normOut = NoResult

InitAux ==
    /\ valText = <<>>
    /\ valOut = NoVerdict
    /\ streamDoc = <<>>
    /\ streamPos = 0
    /\ viewOps = 0

Init == InitRest /\ history = <<>> /\ InitAux

\* One streaming call at a time on a GCP session (the calls do not overlap).
Next ==
    \/ \E c \in CallIds, m \in SendInputs : NoneInFlight /\ SendStreamStart(c, m)
    \/ \E c \in CallIds, m \in GenerateInputs : NoneInFlight /\ GenerateStreamStart(c, m)
    \/ \E c \in CallIds : OpenOk(c)
    \/ \E c \in CallIds : SendStreamChunk(c)
    \/ \E c \in CallIds : GenerateStreamChunk(c)
    \/ \E c \in CallIds : SendStreamEnd(c)
    \/ \E c \in CallIds : GenerateStreamEnd(c)
    \/ \E c \in CallIds : StreamError(c)
    \/ \E c \in CallIds : Cancel(c)

Spec == Init /\ [][Next]_vars

\* The methods of one GCPLive session, called one after the other.
NextLive ==
    \/ ConnectOk
    \/ ConnectFail
    \/ Close
    \/ SendToolResponse
    \/ SendRealtime
    \/ \E turns \in TurnInputs, complete \in BOOLEAN : SendClientContent(turns, complete)
    \/ \E op \in SendOps, turns \in TurnInputs, complete \in BOOLEAN :
          SendConnectFail(op, turns, complete)
    \/ \E op \in SendOps : SendFail(op)
    \/ AEnterOk
    \/ AEnterFail
    \/ \E kind \in ExitKinds : AExit(kind)

SpecLive == Init /\ [][NextLive]_vars

\* receive() calls made one after the other on a live session that is
\* connected and closed between them.
NextRecv ==
    \/ ~RecvRunning /\ ConnectOk
    \/ ~RecvRunning /\ Close
    \/ ReceiveStart
    \/ ReceiveStartFail
    \/ ReceiveEvent
    \/ ReceiveEnd
    \/ ReceiveError

SpecRecv == Init /\ [][NextRecv]_vars

\* connect, the send methods, receive and close called one after the other
\* in any order; a receive() runs to its end before the next call is made.
\* The messages a receive() hands over do not touch the session and are
\* left to SpecRecv.
NextSession ==
    \/ ~RecvRunning /\ ConnectOk
    \/ ~RecvRunning /\ ConnectFail
    \/ ~RecvRunning /\ Close
    \/ ~RecvRunning /\ SendToolResponse
    \/ ~RecvRunning /\ SendRealtime
    \/ \E turns \in TurnInputs : ~RecvRunning /\ SendClientContent(turns, TRUE)
    \/ \E op \in SendOps : ~RecvRunning /\ SendConnectFail(op, NoTurns, TRUE)
    \/ \E op \in SendOps : ~RecvRunning /\ SendFail(op)
    \/ ReceiveStart
    \/ ReceiveStartFail
    \/ ReceiveEnd
    \/ ReceiveError

SpecSession == Init /\ [][NextSession]_vars

\* _validate_message called directly on a session constructed with or
\* without a history.
InitNorm ==
    /\ InitRest
    /\ history \in (IF hasHistory THEN SuppliedHistories ELSE {<<>>})
    /\ InitAux

NextNorm == \E m \in NormInputs : Normalize(m)

SpecNorm == InitNorm /\ [][NextNorm]_vars

\* The validator called on any text of up to MaxText characters.
InitValid ==
    /\ InitRest
    /\ history = <<>>
    /\ valText \in Texts
    /\ valOut = NoVerdict
    /\ streamDoc = <<>>
    /\ streamPos = 0
    /\ viewOps = 0

NextValid == ValidateCall

SpecValid == InitValid /\ [][NextValid]_vars

\* Chat-mode calls with plain text on one session whose generators are
\* driven by several tasks: a call may start while another is suspended.
NextOverlap ==
    \/ \E c \in CallIds : SendStreamStart(c, StrInput)
    \/ \E c \in CallIds : OpenOk(c)
    \/ \E c \in CallIds : SendStreamChunk(c)
    \/ \E c \in CallIds : SendStreamEnd(c)
    \/ \E c \in CallIds : StreamError(c)

SpecOverlap == Init /\ [][NextOverlap]_vars

\* Transport failures: a program that drives either a GCP session through
\* chat-mode calls or a GCPLive session through connects and sends.  The
\* two objects share no state, so their steps are not interleaved.
StreamsUnused == calls = [c \in CallIds |-> IdleCall] /\ response = <<>>
LiveUnused == lastOp = "none"

NextTransport ==
    \/ \E c \in CallIds : LiveUnused /\ NoneInFlight /\ SendStreamStart(c, StrInput)
    \/ \E c \in CallIds : LiveUnused /\ OpenOk(c)
    \/ \E c \in CallIds : LiveUnused /\ SendStreamChunk(c)
    \/ \E c \in CallIds : LiveUnused /\ SendStreamEnd(c)
    \/ \E c \in CallIds : LiveUnused /\ StreamError(c)
    \/ StreamsUnused /\ ConnectOk
    \/ StreamsUnused /\ ConnectFail
    \/ StreamsUnused /\ Close
    \/ StreamsUnused /\ SendToolResponse
    \/ StreamsUnused /\ SendRealtime
    \/ \E turns \in TurnInputs, complete \in BOOLEAN :
          StreamsUnused /\ SendClientContent(turns, complete)
    \/ \E op \in SendOps, turns \in TurnInputs, complete \in BOOLEAN :
          StreamsUnused /\ SendConnectFail(op, turns, complete)
    \/ \E op \in SendOps : StreamsUnused /\ SendFail(op)

SpecTransport == Init /\ [][NextTransport]_vars

\* Chat-mode calls with plain text, one at a time, and a caller that
\* changes the list get_history() gave it.
NextView ==
    \/ \E c \in CallIds : NoneInFlight /\ SendStreamStart(c, StrInput)
    \/ \E c \in CallIds : OpenOk(c)
    \/ \E c \in CallIds : SendStreamChunk(c)
    \/ \E c \in CallIds : SendStreamEnd(c)
    \/ ViewAppend
    \/ ViewDelete
    \/ ViewReplace

SpecView == Init /\ [][NextView]_vars

\* A chat-mode call whose stream has just been opened: the user message is
\* in the history, the accumulator is empty, and the remote side streams
\* one of the replies, split into chunks as the transport likes.
InitAssemble ==
    /\ InitRest
    /\ history = (IF hasHistory THEN <<ValidateMessage(StrInput)>> ELSE <<>>)
    /\ valText = <<>>
    /\ valOut = NoVerdict
    /\ streamDoc \in Replies
    /\ streamPos = 0
    /\ viewOps = 0

NextAssemble ==
    \/ \E n \in 1..MaxText : AssembleChunk(n)
    \/ AssembleEnd

SpecAssemble == InitAssemble /\ [][NextAssemble]_vars

\* --------------------------------------------------------------- claims
\* No call after c has been started: the history is as call c left it.
Latest(c) == \A d \in CallIds : d > c => calls[d].pc = "idle"
\* No chat-mode call after c has been started: self.response is call c's.
LatestChat(c) == \A d \in CallIds : d > c => calls[d].mode # "chat"
UserMessage(c) == ValidateMessage(calls[c].input)
ChatDone(c) == calls[c].mode = "chat" /\ calls[c].pc = "done"
\* The first n calls are chat-mode calls that completed, and no other call ran.
FirstNDone(n) ==
    /\ hasHistory
    /\ \A c \in CallIds : IF c <= n THEN ChatDone(c) ELSE calls[c].pc = "idle"
Alternates(h) ==
    \A i \in 1..Len(h) : h[i].role = IF i % 2 = 1 THEN "user" ELSE "model"

C2_AppendBeforeCall ==
    \A c \in CallIds :
        calls[c].mode = "chat" =>
            /\ calls[c].pc = "opening" =>
                  /\ history = Append(calls[c].pre, UserMessage(c))
                  /\ calls[c].sent = history
            /\ calls[c].pc \in {"open", "done", "failed", "cancelled"} =>
                  calls[c].sent = Append(calls[c].pre, UserMessage(c))

C2_Witness ==
    \E c \in CallIds :
        /\ calls[c].mode = "chat" /\ calls[c].pc = "opening"
        /\ Len(calls[c].pre) = 2
        /\ Len(calls[c].sent) = 3

\* C3: a chat-mode stream call that fails, while opening or after chunks
\* were delivered, appends no model message: the transcript is the pre-call
\* transcript plus the user message, and the delivered chunks stay delivered.
C3_FailureKeepsUserMessageOnly ==
    \A c \in CallIds :
        (calls[c].mode = "chat" /\ calls[c].pc = "failed" /\ Latest(c)) =>
            /\ history = Append(calls[c].pre, UserMessage(c))
            /\ calls[c].yielded = calls[c].received

C3_Witness ==
    \E c \in CallIds :
        /\ calls[c].mode = "chat" /\ calls[c].pc = "failed" /\ Latest(c)
        /\ Len(calls[c].yielded) >= 1
        /\ Len(history) = Len(calls[c].pre) + 1

\* C4: once a chat-mode stream call is cancelled no further chunk is
\* delivered to it and finalization never runs: the transcript holds the
\* user message of the call and no model message for it.
C4_CancelNeverFinalizes ==
    [][\A c \in CallIds :
          /\ calls[c].pc = "cancelled" => calls'[c] = calls[c]
          /\ (calls'[c].mode = "chat" /\ calls'[c].pc = "cancelled"
                /\ \A d \in CallIds : d > c => calls'[d].pc = "idle")
             => history' = Append(calls'[c].pre, ValidateMessage(calls'[c].input))
      ]_vars

C4_Witness ==
    \E c \in CallIds :
        /\ calls[c].mode = "chat" /\ calls[c].pc = "cancelled" /\ Latest(c)
        /\ Len(calls[c].yielded) >= 1
        /\ history = Append(calls[c].pre, UserMessage(c))

C6_YieldedInOrder ==
    \A c \in CallIds :
        /\ calls[c].yielded = calls[c].received
        /\ calls[c].yielded = [k \in 1..Len(calls[c].yielded) |-> ChunkText(c, k)]

C6_Witness ==
    \E c, d \in CallIds :
        /\ calls[c].mode = "chat" /\ calls[d].mode = "stateless"
        /\ Len(calls[c].yielded) = MaxChunks
        /\ Len(calls[d].yielded) = MaxChunks

\* C7: a chat-mode stream call whose transport delivers no chunk yields
\* nothing, raises nothing and finalizes: the transcript gains the user
\* message followed by a model message with no content.
C7_EmptyStreamFinalizes ==
    \A c \in CallIds :
        (ChatDone(c) /\ calls[c].received = <<>> /\ Latest(c)) =>
            /\ calls[c].yielded = <<>>
            /\ history = calls[c].pre \o <<UserMessage(c), Content("model", <<>>)>>

C7_Witness ==
    \E c \in CallIds :
        /\ ChatDone(c) /\ calls[c].received = <<>> /\ Latest(c)
        /\ Len(history) = Len(calls[c].pre) + 2

C9_Original ==
    (calls[1].mode = "stateless" /\ calls[1].pc = "done" /\ Latest(1)) =>
        /\ Len(history) = 2
        /\ history[1] = UserMessage(1)
        /\ history[2] = Content("model", ResponseParts(calls[1].received))

\* C10: close() is idempotent: in every reachable state a second close()
\* changes nothing the first one left, two close() calls in a row raise
\* nothing, and no transport is released more than once.
C10_CloseIdempotent ==
    /\ LET once == CloseEffect(session, transports) IN
           CloseEffect(once.session, once.transports) = once
    /\ \A t \in TransportIds : transports[t].releases <= 1
    /\ lastOp = "close" => session = 0 /\ liveErr = "none"

C10_Witness ==
    /\ lastOp = "close" /\ opFrom = 0
    /\ \E t \in TransportIds : transports[t].releases = 1

\* ------------------------------------------------------------ live session
\* close() has released a transport of this session at some time.
WasClosed == \E t \in TransportIds : transports[t].state = "closed"
NoNewTransport ==
    \A t \in TransportIds :
        transports[t].state = "absent" => transports'[t].state = "absent"

\* C11 (as stated): Closed is terminal: once close() has closed the session,
\* no later call makes it hold a session again or establishes a new
\* transport.
C11_Original ==
    [][(WasClosed /\ session = 0) => (session' = 0 /\ NoNewTransport)]_vars

\* C12 (as stated): send_stream and send_tool_response called while the
\* session is not Connected, and every send_* call after Closed, fail with
\* InvalidStateTransition, transmit nothing and leave the session as it was.
C12_Original ==
    (/\ opFrom = 0
     /\ \/ lastOp \in {"send_stream", "send_tool_response"}
        \/ lastOp = "send_client_content" /\ WasClosed)
    => (liveErr = "InvalidStateTransition" /\ opSends = 0 /\ session = opFrom)

\* C13: after the body of  async with GCPLive(...)  is left, by a return,
\* an error or a cancellation, close() has run: the session holds nothing and
\* no transport is open.
C13_ScopedClose ==
    lastOp \in {ExitOp(kind) : kind \in ExitKinds}
    => (session = 0 /\ \A t \in TransportIds : transports[t].state # "open")

C13_Witness ==
    /\ lastOp = "aexit_cancel"
    /\ opFrom # 0
    /\ transports[opFrom].state = "closed"

\* C14: connect() on a session that holds nothing makes exactly one attempt;
\* if it succeeds the session holds an open transport, if it fails the
\* failure is raised, the session still holds nothing and no transport is
\* open.
C14_ConnectOnce ==
    (lastOp = "connect" /\ opFrom = 0)
    => /\ opAttempts = 1
       /\ liveErr \in {"none", "TransportError"}
       /\ liveErr = "none" => (session # 0 /\ transports[session].state = "open")
       /\ liveErr = "TransportError"
              => (session = 0 /\ \A t \in TransportIds : transports[t].state # "open")

C14_Witness ==
    /\ lastOp = "connect" /\ opFrom = 0 /\ liveErr = "TransportError"
    /\ opAttempts = 1

\* C15: send_client_content called on a session that holds nothing connects
\* exactly once; whatever it puts on the wire goes to the transport that
\* connect established, and when the connect fails the wire is unchanged,
\* the failure is raised and the session still holds nothing.
C15_ImplicitConnect ==
    [][(session = 0 /\ lastOp' = "send_client_content")
       => /\ opAttempts' = 1
          /\ wire' # wire
                => /\ session' # 0 /\ transports'[session'].state = "open"
                   /\ transports[session'].state = "absent"
                   /\ wire' = Append(wire, wire'[Len(wire')])
                   /\ wire'[Len(wire')].on = session'
          /\ session' = 0 => (wire' = wire /\ liveErr' = "TransportError")]_vars

C15_Witness ==
    /\ lastOp = "send_client_content" /\ opFrom = 0
    /\ liveErr = "TransportError" /\ opAttempts = 1 /\ opSends = 0
    /\ \E i \in 1..Len(wire) : wire[i].what = "send_client_content"

\* C16: a receive() call hands the consumer the server events of its
\* session one per request, in the order the session produced them and each
\* once, beginning with the first event no earlier call took; when the remote
\* side ends the stream the call ends without an error, and the next call
\* starts a sequence of its own.
C16_ReceiveInOrder ==
    /\ recv.pc \in {"open", "ended"}
          => /\ recv.out = [i \in 1..Len(recv.out) |-> ServerEvent(recv.on, recv.start + i)]
             /\ delivered[recv.on] = recv.start + Len(recv.out)
    /\ (recv.pc = "ended" /\ lastOp = "receive") => liveErr = "none"

C16_Witness ==
    /\ recv.pc = "ended"
    /\ recv.start > 0
    /\ Len(recv.out) >= 2

\* ------------------------------------------------------------- normalizer
HasUnsupported(m) ==
    \/ m.kind = "other"
    \/ m.kind = "list" /\ \E i \in 1..Len(m.items) : m.items[i] \notin SupportedItems
AllSupported(m) ==
    m.kind = "list" /\ \A i \in 1..Len(m.items) : m.items[i] \in SupportedItems
Normalized == normOut.status # "none"

\* C17 (as stated): for every unsupported input, a list with an unsupported
\* element included, _validate_message raises, naming the runtime type of
\* the offending element, and returns no message.
C17_Original ==
    (Normalized /\ HasUnsupported(normIn))
    => (normOut.status = "raised" /\ normOut.named = "other")

\* C18 (as stated): whenever _validate_message returns, the result is a
\* message with at least one part, and with role user for plain text, a
\* typed part and a list.
C18_Original ==
    normOut.status = "returned"
    => /\ normOut.msg.type = "Content"
       /\ normOut.msg.parts # <<>>
       /\ normIn.kind \in {"str", "part", "list"} => normOut.msg.role = "user"

\* C19: a list of k supported elements is normalized to one message with
\* role user and exactly k parts, part i being what element i alone gives:
\* the order is kept, and a blob element gives a Blob part, every other
\* element a Text part.
C19_ListInOrder ==
    (Normalized /\ AllSupported(normIn))
    => /\ normOut.status = "returned"
       /\ normOut.msg.type = "Content" /\ normOut.msg.role = "user"
       /\ Len(normOut.msg.parts) = Len(normIn.items)
       /\ \A i \in 1..Len(normIn.items) :
              /\ <<normOut.msg.parts[i]>> = ItemParts(normIn.items[i])
              /\ normOut.msg.parts[i].tag
                    = (IF normIn.items[i] = "blob" THEN "Blob" ELSE "Text")

C19_Witness ==
    /\ normOut.status = "returned"
    /\ normIn.kind = "list" /\ normIn.items = <<"part", "blob">>
    /\ normOut.msg.parts = <<TextPart("p"), BlobPart("b", "image/png")>>

\* C20: a call of _validate_message, whether it returns or raises, leaves
\* the history, the accumulator, every streaming call and the whole live
\* session as they were, and puts nothing on a wire.
C20_NormalizePure ==
    [][UNCHANGED <<history, response, hasHistory, calls, liveVars>>]_vars

C20_Witness ==
    /\ normOut.status = "raised"
    /\ Len(history) = 2

\* -------------------------------------------------------------- validator
\* Stated without the parser: the text is a document when it opens and
\* closes with a brace and holds key/value pairs in between.
WellFormed(text) ==
    /\ Len(text) >= 2 /\ (Len(text) % 2) = 0
    /\ text[1] = "{" /\ text[Len(text)] = "}"
    /\ \A i \in 2..(Len(text) - 1) :
          IF i % 2 = 0 THEN text[i] \in Keys ELSE text[i] \in Values
\* The value the document gives to key k: that of its last pair with key k.
Holds(text, k, v) ==
    \E i \in 2..(Len(text) - 2) :
        /\ i % 2 = 0 /\ text[i] = k /\ text[i + 1] = v
        /\ \A j \in (i + 1)..(Len(text) - 2) : j % 2 = 0 => text[j] # k
BadFields(text) == {k \in RequiredFields : ~Holds(text, k, "t")}
Validated == valOut.status # "none"

\* C21: a text that does not parse fails with MalformedPayloadError, never
\* with SchemaValidationError; a text that parses with a required field
\* missing or of the wrong type fails with SchemaValidationError carrying
\* exactly the names of those fields; neither failure carries a record.
C21_FailureKinds ==
    Validated
    => /\ ~WellFormed(valText)
            => (valOut.status = "MalformedPayloadError" /\ valOut.record = NoRecord)
       /\ (WellFormed(valText) /\ BadFields(valText) # {})
            => /\ valOut.status = "SchemaValidationError"
               /\ valOut.fields = BadFields(valText)
               /\ valOut.record = NoRecord

C21_Witness ==
    /\ valText = <<"{", "m", "9", "}">>
    /\ valOut.status = "SchemaValidationError"
    /\ valOut.fields = {"m", "s"}

\* C22: the validator returns a record exactly when the text parses and
\* every required field is present with a string value; the record then
\* holds the values of the text, and in every other case no field of a
\* record is filled in.
C22_AllOrNothing ==
    Validated
    => /\ valOut.status = "record"
            <=> (WellFormed(valText) /\ \A k \in RequiredFields : Holds(valText, k, "t"))
       /\ valOut.status = "record"
            => \A k \in RequiredFields : Holds(valText, k, valOut.record[k])
       /\ valOut.status # "record" => valOut.record = NoRecord

C22_Witness ==
    /\ valText = <<"{", "m", "t", "s", "t", "}">>
    /\ valOut.status = "record"
    /\ valOut.record = [m |-> "t", s |-> "t"]

C24_Original ==
    [][viewOps' # viewOps => history' = history]_vars

IsPrefix(a, b) == Len(a) <= Len(b) /\ SubSeq(b, 1, Len(a)) = a

\* C25: the transcript is append-only: every step of a stream call leaves
\* the transcript it found as a prefix of the transcript it leaves.
C25_AppendOnly ==
    [][IsPrefix(history, history')]_vars

C25_Witness ==
    /\ \E c \in CallIds : calls[c].pc = "failed" /\ calls[c].mode = "chat"
    /\ Len(history) = 3

\* Where call c put the user message it appended.
UserAt(c) == Len(calls[c].pre) + 1
Appended(c) == calls[c].mode = "chat" /\ calls[c].opens = 1

C27_NoRetry ==
    /\ \A c \in CallIds :
          /\ calls[c].opens <= 1
          /\ calls[c].pc = "failed"
                => (calls[c].opens = 1 /\ calls[c].final = <<>>)
    /\ opAttempts <= 1 /\ opSends <= 1
    /\ (opSends = 1 /\ lastOp \in SendOps)
          => \/ liveErr = "none" /\ wire # <<>> /\ wire[Len(wire)].what = lastOp
             \/ liveErr = "TransportError"

C27_Witness ==
    /\ calls[1].pc = "failed"
    /\ calls[1].received # <<>>
    /\ calls[1].opens = 1

\* C28 (as stated): on a session constructed with no arguments the
\* transcript is an empty list, so the first chat-mode stream call appends
\* its user message to it.
C28_Original ==
    (/\ ~hasHistory
     /\ calls[1].mode = "chat"
     /\ Supported(calls[1].input))
    => (calls[1].pc # "crashed" /\ history # <<>>)

\* C29: with chat-mode calls made one after the other, the model message a
\* call appends holds the chunks of that call, all of them and in order,
\* and no chunk of an earlier call, also when the earlier call failed or
\* was cancelled after it had received chunks.
C29_OwnChunksOnly ==
    \A c \in CallIds :
        ChatDone(c)
        => /\ calls[c].final =
                <<Content("model", [k \in 1..Len(calls[c].received) |->
                                      TextPart(ChunkText(c, k))])>>
           /\ <<history[calls[c].at]>> = calls[c].final

C29_Witness ==
    /\ calls[1].mode = "chat" /\ calls[1].pc \in {"failed", "cancelled"}
    /\ calls[1].received # <<>>
    /\ ChatDone(2)
    /\ Len(calls[2].received) = MaxChunks

\* C30 (as stated): when chat-mode calls interleave, the model message each
\* call appends still holds exactly the chunks of its own stream.
C30_Original ==
    \A c \in CallIds :
        ChatDone(c) => calls[c].final = <<Content("model", ResponseParts(calls[c].received))>>

\* ------------------------------------------------- rejected and stateless
\* C31: a chat-mode stream call whose input fails normalization leaves the
\* transcript exactly as it found it and issues no remote call.
C31_RejectLeavesTranscript ==
    [][\A c \in CallIds :
          (calls[c].pc = "idle" /\ calls'[c].pc = "rejected" /\ calls'[c].mode = "chat")
          => /\ history' = history
             /\ calls'[c].opens = 0
             /\ calls'[c].sent = <<>>]_vars

C31_Witness ==
    /\ calls[2].mode = "chat" /\ calls[2].pc = "rejected"
    /\ history = calls[2].pre
    /\ Len(history) = 2

\* C35: generate_stream issues one remote call whose contents hold one
\* normalized message per element of the list it was given, in the order
\* of the list (one message for an input that is no list); the elements of
\* a list are not merged into one message of several parts.
C35_OneMessagePerElement ==
    \A c \in CallIds :
        (calls[c].mode = "stateless" /\ calls[c].pc # "rejected")
        => /\ calls[c].opens = 1
           /\ calls[c].input.kind = "str"
                => calls[c].sent = <<Content("user", <<TextPart("q")>>)>>
           /\ calls[c].input.kind = "list"
                => /\ Len(calls[c].sent) = Len(calls[c].input.items)
                   /\ \A i \in 1..Len(calls[c].sent) :
                         calls[c].sent[i] =
                            (IF calls[c].input.items[i] = "str"
                             THEN Content("user", <<TextPart("q")>>)
                             ELSE BarePart(TextPart("p")))

C35_Witness ==
    \E c \in CallIds :
        /\ calls[c].mode = "stateless" /\ calls[c].pc = "done"
        /\ calls[c].input = ListInput
        /\ Len(calls[c].sent) = 2

\* ------------------------------------------------- turns of a live session
\* The message _validate_content makes of a turn of a supported type.
ExpectedTurn(k) ==
    IF k = "str" THEN Content("user", <<TextPart("q")>>)
    ELSE Content("user", <<TextPart("c")>>)

\* A send_client_content call has just returned or raised.
ClientContentStep == lastOp' = "send_client_content"

\* C32: a send_client_content call with turns that returns has made exactly
\* one send on the session, carrying the supplied turns in the supplied
\* order with the supplied turn_complete; what earlier calls sent stays as
\* it was, so nothing is buffered, merged or held back, also when
\* turn_complete is False.
C32_PassThrough ==
    [][(ClientContentStep /\ liveErr' = "none" /\ opArg'.turns.kind # "none")
       => /\ opSends' = 1
          /\ Len(wire') = Len(wire) + 1
          /\ SubSeq(wire', 1, Len(wire)) = wire
          /\ LET sent == wire'[Len(wire')]
                 items == opArg'.turns.items
             IN /\ sent.on = session'
                /\ sent.what = "send_client_content"
                /\ sent.complete = opArg'.complete
                /\ Len(sent.turns) = Len(items)
                /\ \A i \in 1..Len(items) : sent.turns[i] = ExpectedTurn(items[i])]_vars

C32_Witness ==
    /\ lastOp = "send_client_content" /\ liveErr = "none"
    /\ ~opArg.complete
    /\ Len(wire) = 2
    /\ wire[1].what = "send_client_content" /\ wire[1].complete
    /\ Len(wire[1].turns) = 1
    /\ ~wire[2].complete /\ Len(wire[2].turns) = 2

\* C33: a send_client_content call given a turn of an unsupported type
\* fails and sends nothing, not even the turns in front of that one; a call
\* with turns=None sends nothing either.
C33_AllBeforeAny ==
    [][ClientContentStep
       => /\ (\E i \in 1..Len(opArg'.turns.items) : opArg'.turns.items[i] = "other")
                => /\ liveErr' \in {"ValueError", "TransportError"}
                   /\ wire' = wire
                   /\ opSends' = 0
          /\ opArg'.turns.kind = "none"
                => /\ wire' = wire
                   /\ opSends' = 0]_vars

C33_Witness ==
    /\ lastOp = "send_client_content" /\ liveErr = "ValueError"
    /\ opArg.turns.items = <<"str", "other">>
    /\ opSends = 0
    /\ Len(wire) = 1

\* ------------------------------------------------- one transport at a time
OpenTransports == {t \in TransportIds : transports[t].state = "open"}

====
